---- MODULE Spec2Model ----
(***************************************************************************)
(* randomneet: constrained random generation of graphs and logic networks. *)
(*                                                                         *)
(* The model holds one NetworkRandomizer (rand) and the object stored in   *)
(* its trand attribute.  Graphs and logic tables are abstracted to small   *)
(* identifiers; a constraint is a record [cls, test] where cls is the      *)
(* Python class of the value and test names the predicate it evaluates.    *)
(***************************************************************************)
EXTENDS Integers, Sequences, FiniteSets, TLC

\* ------------------------------------------------------------------ bounds
MaxLen == 2          \* longest constraint list handed to a setter / stored
MaxTimeout == 2      \* largest positive timeout of rand
MaxTrandTimeout == 1 \* largest positive timeout of a trand instance
MaxAttempts == 3     \* cap on the iterations modelled of an unbounded loop
NumGraphs == 2       \* graphs a topology hook can produce
NumTables == 2       \* logic tables _randomize can produce over one graph

\* timeout=1000, the default of NetworkRandomizer.__init__
DefaultTimeout == 1000

Graphs == 1..NumGraphs
Tables == 1..NumTables
Timeouts == (0 - 1)..MaxTimeout
TrandTimeouts == 0..MaxTrandTimeout

\* ------------------------------------------------------------ constraints
\* The values a caller can put in a constraint list: two topological
\* constraints (one the reference graph satisfies, one nothing satisfies), a
\* dynamical constraint nothing satisfies, a bare predicate and an integer.
TestNames == {"sel", "allfail"}

ConstraintInputs ==
    [cls : {"TopologicalConstraint"}, test : TestNames]
        \cup {[cls |-> "DynamicalConstraint", test |-> "allfail"],
              [cls |-> "callable", test |-> "sel"],
              [cls |-> "int", test |-> "none"]}

RECURSIVE SeqsUpTo(_, _)
SeqsUpTo(S, n) ==
    IF n = 0 THEN {<<>>}
    ELSE LET shorter == SeqsUpTo(S, n - 1)
         IN  shorter \cup {Append(s, x) : s \in {t \in shorter : Len(t) = n - 1}, x \in S}

ConstraintLists == SeqsUpTo(ConstraintInputs, MaxLen)

\* isinstance(c, TopologicalConstraint); "CallableTopological" is an instance
\* of a TopologicalConstraint subclass that defines __call__.
IsTopological(c) ==
    c.cls \in {"TopologicalConstraint", "GenericTopological", "CallableTopological"}

\* isinstance(c, DynamicalConstraint)
IsDynamical(c) == c.cls \in {"DynamicalConstraint", "GenericDynamical"}

\* isinstance(c, AbstractConstraint)
IsConstraint(c) == IsTopological(c) \/ IsDynamical(c)

\* callable(c)
Callable(c) == c.cls \in {"callable", "CallableTopological"}

\* GenericTopological(test) / GenericDynamical(test): the typed adapters
GenericTopological(c) == [cls |-> "GenericTopological", test |-> c.test]
GenericDynamical(c) == [cls |-> "GenericDynamical", test |-> c.test]

\* constraint.satisfies(graph) for a topological constraint: the predicate
\* "sel" accepts graph 1 only, "allfail" accepts nothing.
GraphSatisfies(c, g) == c.test = "sel" /\ g = 1

\* constraint.satisfies(net) for a dynamical constraint: the predicate "sel"
\* accepts the networks with table 1 only, "allfail" accepts nothing.
NetSatisfies(c, n) == c.test = "sel" /\ n.table = 1

\* AbstractRandomizer._check_constraints on a graph candidate
CheckGraph(cs, g) == \A i \in 1..Len(cs) : GraphSatisfies(cs[i], g)

\* AbstractRandomizer._check_constraints on a network candidate
CheckNet(cs, n) == \A i \in 1..Len(cs) : NetSatisfies(cs[i], n)

\* ---------------------------------------------------------------- setters
\* Every setter returns [err, list]: the exception raised ("ok" if none) and
\* the list it would store.

\* AbstractRandomizer.constraints setter: only AbstractConstraint instances.
AbstractSetter(cs) ==
    IF \A i \in 1..Len(cs) : IsConstraint(cs[i])
    THEN [err |-> "ok", list |-> cs]
    ELSE [err |-> "TypeError", list |-> cs]

\* AbstractRandomizer.add_constraint
AbstractAdd(cs, c) ==
    IF IsConstraint(c)
    THEN [err |-> "ok", list |-> Append(cs, c)]
    ELSE [err |-> "TypeError", list |-> cs]

\* TopologyNormalize accepting any constraint instance, dynamical included.
RECURSIVE TopologyNormalizeAny(_, _)
TopologyNormalizeAny(cs, i) ==
    IF i > Len(cs) THEN [err |-> "ok", list |-> cs]
    ELSE IF IsConstraint(cs[i]) THEN TopologyNormalizeAny(cs, i + 1)
    ELSE IF Callable(cs[i])
         THEN TopologyNormalizeAny([cs EXCEPT ![i] = GenericTopological(cs[i])], i + 1)
    ELSE [err |-> "TypeError", list |-> cs]

\* The loop of TopologyRandomizer.constraints, from index i on.
RECURSIVE TopologyNormalize(_, _)
TopologyNormalize(cs, i) ==
    IF i > Len(cs) THEN [err |-> "ok", list |-> cs]
    ELSE IF IsTopological(cs[i]) THEN TopologyNormalize(cs, i + 1)
    ELSE IF Callable(cs[i])
         THEN TopologyNormalize([cs EXCEPT ![i] = GenericTopological(cs[i])], i + 1)
    ELSE [err |-> "TypeError", list |-> cs]

\* TopologyRandomizer.constraints setter
TopologySetter(cs) ==
    LET r == TopologyNormalize(cs, 1)
    IN  IF r.err # "ok" THEN r ELSE AbstractSetter(r.list)

\* TopologyRandomizer.add_constraint
TopologyAdd(cs, c) ==
    IF IsTopological(c) THEN AbstractAdd(cs, c)
    ELSE IF Callable(c) THEN AbstractAdd(cs, GenericTopological(c))
    ELSE [err |-> "TypeError", list |-> cs]

\* FixedNormalize without the eager check against the stored graph.
FixedNormalizeUnchecked(cs, i, g) == TopologyNormalize(cs, i)

\* The loop of FixedTopology.constraints over the stored graph g, from i on.
RECURSIVE FixedNormalize(_, _, _)
FixedNormalize(cs, i, g) ==
    IF i > Len(cs) THEN [err |-> "ok", list |-> cs]
    ELSE IF ~IsTopological(cs[i]) /\ ~Callable(cs[i])
         THEN [err |-> "TypeError", list |-> cs]
    ELSE LET ds == IF IsTopological(cs[i]) THEN cs
                   ELSE [cs EXCEPT ![i] = GenericTopological(cs[i])]
         IN  IF ~GraphSatisfies(ds[i], g)
             THEN [err |-> "ConstraintError", list |-> ds]
             ELSE FixedNormalize(ds, i + 1, g)

\* FixedTopology.constraints setter
FixedSetter(cs, g) ==
    LET r == FixedNormalize(cs, 1, g)
    IN  IF r.err # "ok" THEN r ELSE TopologySetter(r.list)

\* FixedTopology.add_constraint
FixedAdd(cs, c, g) ==
    IF ~IsTopological(c) /\ ~Callable(c) THEN [err |-> "TypeError", list |-> cs]
    ELSE LET d == IF IsTopological(c) THEN c ELSE GenericTopological(c)
         IN  IF ~GraphSatisfies(d, g)
             THEN [err |-> "ConstraintError", list |-> cs]
             ELSE TopologyAdd(cs, d)

\* Partition with a value that is no constraint and not callable skipped
\* instead of rejected.
RECURSIVE PartitionSkipping(_, _, _, _)
PartitionSkipping(cs, i, t, d) ==
    IF i > Len(cs) THEN [err |-> "ok", t |-> t, d |-> d]
    ELSE IF IsDynamical(cs[i]) THEN PartitionSkipping(cs, i + 1, t, Append(d, cs[i]))
    ELSE IF IsTopological(cs[i]) THEN PartitionSkipping(cs, i + 1, Append(t, cs[i]), d)
    ELSE IF Callable(cs[i])
         THEN PartitionSkipping(cs, i + 1, t, Append(d, GenericDynamical(cs[i])))
    ELSE PartitionSkipping(cs, i + 1, t, d)

\* Partition with a bare predicate stored unwrapped.
RECURSIVE PartitionUnwrapped(_, _, _, _)
PartitionUnwrapped(cs, i, t, d) ==
    IF i > Len(cs) THEN [err |-> "ok", t |-> t, d |-> d]
    ELSE IF IsDynamical(cs[i]) \/ Callable(cs[i])
         THEN PartitionUnwrapped(cs, i + 1, t, Append(d, cs[i]))
    ELSE IF IsTopological(cs[i]) THEN PartitionUnwrapped(cs, i + 1, Append(t, cs[i]), d)
    ELSE [err |-> "TypeError", t |-> t, d |-> d]

\* Partition with a topological constraint kept in the own list as well.
RECURSIVE PartitionKeepingAll(_, _, _, _)
PartitionKeepingAll(cs, i, t, d) ==
    IF i > Len(cs) THEN [err |-> "ok", t |-> t, d |-> d]
    ELSE IF IsDynamical(cs[i]) THEN PartitionKeepingAll(cs, i + 1, t, Append(d, cs[i]))
    ELSE IF IsTopological(cs[i])
         THEN PartitionKeepingAll(cs, i + 1, Append(t, cs[i]), Append(d, cs[i]))
    ELSE IF Callable(cs[i])
         THEN PartitionKeepingAll(cs, i + 1, t, Append(d, GenericDynamical(cs[i])))
    ELSE [err |-> "TypeError", t |-> t, d |-> d]

\* The classification loop of NetworkRandomizer.constraints, from index i on,
\* with the lists tconstraints (t) and dconstraints (d) built so far.
RECURSIVE Partition(_, _, _, _)
Partition(cs, i, t, d) ==
    IF i > Len(cs) THEN [err |-> "ok", t |-> t, d |-> d]
    ELSE IF IsDynamical(cs[i]) THEN Partition(cs, i + 1, t, Append(d, cs[i]))
    ELSE IF IsTopological(cs[i]) THEN Partition(cs, i + 1, Append(t, cs[i]), d)
    ELSE IF Callable(cs[i])
         THEN Partition(cs, i + 1, t, Append(d, GenericDynamical(cs[i])))
    ELSE [err |-> "TypeError", t |-> t, d |-> d]

\* ------------------------------------------------------------------ trand
\* What the trand attribute can hold: NetworkRandomizer.__init__ stores its
\* argument as given.
TrandClasses == {"MockTopologyRandomizerClass", "AbstractRandomizerClass"}
TopologyInstances == {"FixedTopologyInstance", "MockTopologyRandomizerInstance"}
TrandInstances == TopologyInstances \cup {"AbstractRandomizerInstance"}
TrandArgs == {"None"} \cup TrandClasses \cup TrandInstances

\* The list object cs a caller assigned to tr.constraints, as the setter
\* leaves it: a list is not copied (only another iterable is), and the loops
\* of the setters of TopologyRandomizer and FixedTopology store each wrapper
\* into it with constraints[i] = GenericTopological(constraint).
CallerList(tr, cs, g) ==
    IF tr = "FixedTopologyInstance" THEN FixedNormalize(cs, 1, g).list
    ELSE IF tr = "MockTopologyRandomizerInstance" THEN TopologyNormalize(cs, 1).list
    ELSE cs

\* self.trand.constraints = tconstraints, for the object tr held in trand
\* whose current list is old and whose reference graph is g.
TrandAssign(tr, old, t, g) ==
    IF tr = "None" THEN [err |-> "AttributeError", list |-> old]
    ELSE IF tr \in TrandClasses THEN [err |-> "ok", list |-> t]
    ELSE IF tr = "FixedTopologyInstance" THEN
             LET r == FixedSetter(t, g)
             IN  IF r.err = "ok" THEN r ELSE [err |-> r.err, list |-> old]
    ELSE IF tr = "MockTopologyRandomizerInstance" THEN
             LET r == TopologySetter(t)
             IN  IF r.err = "ok" THEN r ELSE [err |-> r.err, list |-> old]
    ELSE LET r == AbstractSetter(t)
         IN  IF r.err = "ok" THEN r ELSE [err |-> r.err, list |-> old]

\* self.trand.add_constraint(c)
TrandAdd(tr, old, c, g) ==
    IF tr = "None" THEN [err |-> "AttributeError", list |-> old]
    ELSE IF tr \in TrandClasses THEN [err |-> "TypeError", list |-> old]
    ELSE IF tr = "FixedTopologyInstance" THEN FixedAdd(old, c, g)
    ELSE IF tr = "MockTopologyRandomizerInstance" THEN TopologyAdd(old, c)
    ELSE AbstractAdd(old, c)

\* NetworkRandomizer.constraints setter: [err, t, d] with the lists that
\* trand.constraints and the randomizer's own constraints hold afterwards.
NetworkSetter(cs, tr, oldT, oldD, g) ==
    LET p == Partition(cs, 1, <<>>, <<>>)
    IN  IF p.err # "ok" THEN [err |-> p.err, t |-> oldT, d |-> oldD]
        ELSE LET a == TrandAssign(tr, oldT, p.t, g)
             IN  IF a.err # "ok" THEN [err |-> a.err, t |-> oldT, d |-> oldD]
                 ELSE LET b == AbstractSetter(p.d)
                      IN  IF b.err # "ok"
                          THEN [err |-> b.err, t |-> a.list, d |-> oldD]
                          ELSE [err |-> "ok", t |-> a.list, d |-> b.list]

\* NetworkRandomizer.add_constraint
NetworkAdd(c, tr, oldT, oldD, g) ==
    IF IsDynamical(c) THEN
        LET b == AbstractAdd(oldD, c)
        IN  [err |-> b.err, t |-> oldT, d |-> b.list]
    ELSE IF Callable(c) THEN
        \* GenericDynamical(c) raises TypeError for a c that is already a
        \* constraint instance
        IF IsConstraint(c) THEN [err |-> "TypeError", t |-> oldT, d |-> oldD]
        ELSE LET b == AbstractAdd(oldD, GenericDynamical(c))
             IN  [err |-> b.err, t |-> oldT, d |-> b.list]
    ELSE IF IsTopological(c) THEN
        LET a == TrandAdd(tr, oldT, c, g)
        IN  [err |-> a.err, t |-> a.list, d |-> oldD]
    ELSE [err |-> "TypeError", t |-> oldT, d |-> oldD]

\* ------------------------------------------------------------------ state
VARIABLES
    phase,            \* "new", "ready" (constructed) or "failed" (__init__ raised)
    trandArg,         \* the trand argument __init__ was called with
    timeout,          \* rand.timeout
    constraints,      \* rand.constraints (the randomizer's own list)
    trand,            \* what rand.trand holds
    trandTimeout,     \* rand.trand.timeout (read only when trand is an instance)
    trandConstraints, \* rand.trand.constraints
    graph,            \* rand.trand.graph, the reference graph
    op,               \* the last constraint operation, "none" if a draw came after
    given,            \* its argument: the list assigned, or <<c>> for an appended c
    caller,           \* the caller's list object as the operation left it
    err,              \* the exception the last constraint operation raised, or "ok"
    call,             \* whose random() is running or ran last: "rand", "trand", "none"
    pc,               \* "idle", "trand" (in trand's loop), "loop" (in rand's loop), "done"
    tloop,            \* loop counter of trand.random()
    loop,             \* loop counter of rand.random()
    topology,         \* the graph trand.random() produced last, 0 before that
    net,              \* the network rand._randomize produced last
    result,           \* "none", "returned" or the exception random() raised
    raisedBy,         \* the random() whose own raise statement raised: "rand", "trand", "none"
    tcalls,           \* trand.random() calls made since the running random() began
    tgen, tsat,       \* graphs trand._randomize produced in this call / those passing
    gen, sat,         \* networks rand._randomize produced in this call / those passing
    mock,             \* a MockRandomizer: [test, timeout, counter]
    log,              \* every random() call made on mock: its caller and its result
    iter,             \* the iterator over mock: [open, requests, taken, raised]
    constraint,       \* the constraint object under test, or the error its constructor raised
    subject,          \* the argument of the last satisfies() call
    outcome,          \* what that call returned or raised
    scan,             \* the loop of IsIrreducible.satisfies: [idx, rows, calls], calls those of is_dependent for the last node
    bias,             \* a UniformBias / MeanBias randomizer [cls, p, trand], or the error its constructor raised
    biasArg,          \* the network a bias randomizer is about to be built on, <<>> once it is built
    fn,               \* the last _random_function call: [k, weights, num_states, on, result]
    wiring            \* a _randomize(topology) call: the graph handed in and the table built so far

vars == <<phase, trandArg, timeout, constraints, trand, trandTimeout,
          trandConstraints, graph, op, given, caller, err, call, pc, tloop, loop, topology,
          net, result, raisedBy, tcalls, tgen, tsat, gen, sat,
          mock, log, iter, constraint, subject, outcome, scan, bias, biasArg, fn,
          wiring>>

config == <<phase, trandArg, timeout, trand, trandTimeout, graph>>
lists == <<constraints, trandConstraints>>
draw == <<call, pc, tloop, loop, topology, net, result, raisedBy, tcalls, tgen, tsat, gen, sat>>
vars_rand == <<phase, trandArg, timeout, constraints, trand, trandTimeout,
               trandConstraints, graph, op, given, caller, err, draw>>
iterVars == <<mock, log, iter>>
satVars == <<constraint, subject, outcome, scan>>
biasVars == <<bias, biasArg, fn>>

NoNet == [graph |-> 0, table |-> 0]

\* No random() call is running and none has left a result behind.
NoDraw ==
    /\ call' = "none" /\ pc' = "idle" /\ tloop' = 0 /\ loop' = 0
    /\ topology' = 0 /\ net' = NoNet /\ result' = "none" /\ raisedBy' = "none"
    /\ tcalls' = 0 /\ tgen' = 0 /\ tsat' = 0 /\ gen' = 0 /\ sat' = 0

\* The parts of the state that stand for objects not yet created.
NoMock ==
    /\ mock = [test |-> "any", timeout |-> 0, counter |-> 0]
    /\ log = <<>>
    /\ iter = [open |-> FALSE, requests |-> 0, taken |-> <<>>, raised |-> 0]

NoSubject ==
    /\ constraint = [cls |-> "none"]
    /\ subject = [type |-> "none"]
    /\ outcome = [kind |-> "none"]
    /\ scan = [idx |-> 0, rows |-> <<>>, calls |-> 0]

NoBias ==
    /\ bias = [cls |-> "none"]
    /\ biasArg = <<>>
    /\ fn = [k |-> 0, weights |-> <<0, 0>>, num_states |-> 0, on |-> {}, result |-> "none"]

NoWiring == wiring = [order |-> <<>>, edges |-> {}, table |-> <<>>]

NoRandomizer ==
    /\ phase = "new" /\ trandArg = "None" /\ timeout = 0
    /\ constraints = <<>> /\ trand = "None" /\ trandTimeout = 0
    /\ trandConstraints = <<>> /\ graph = 1
    /\ op = "none" /\ given = <<>> /\ caller = <<>> /\ err = "ok"
    /\ call = "none" /\ pc = "idle" /\ tloop = 0 /\ loop = 0
    /\ topology = 0 /\ net = NoNet /\ result = "none" /\ raisedBy = "none"
    /\ tcalls = 0 /\ tgen = 0 /\ tsat = 0 /\ gen = 0 /\ sat = 0

Init == NoRandomizer /\ NoMock /\ NoSubject /\ NoBias /\ NoWiring

\* ----------------------------------------------------------- construction
\* NetworkRandomizer.__init__(network, trand=arg, constraints=cs, timeout=t):
\* stores arg in self.trand, then AbstractRandomizer.__init__ sets the timeout
\* and assigns cs through the constraints setter.  tt is the timeout of the
\* instance passed as arg.
Construct(arg, cs, t, tt) ==
    /\ phase = "new"
    /\ LET r == NetworkSetter(cs, arg, <<>>, <<>>, graph)
       IN  /\ trandArg' = arg
           /\ trand' = arg
           /\ trandTimeout' = IF arg \in TrandInstances THEN tt ELSE 0
           /\ timeout' = t
           /\ err' = r.err
           /\ phase' = IF r.err = "ok" THEN "ready" ELSE "failed"
           /\ constraints' = r.d
           /\ trandConstraints' = r.t
    /\ op' = "init" /\ given' = cs /\ caller' = cs
    /\ UNCHANGED <<graph, draw>>
    /\ UNCHANGED <<iterVars, satVars, biasVars, wiring>>

\* ---------------------------------------------------- constraint operations
Idle == phase = "ready" /\ pc \in {"idle", "done"}

\* rand.constraints = cs
SetConstraints(cs) ==
    /\ Idle
    /\ LET r == NetworkSetter(cs, trand, trandConstraints, constraints, graph)
       IN  /\ err' = r.err
           /\ constraints' = r.d
           /\ trandConstraints' = r.t
    /\ op' = "rand.constraints" /\ given' = cs /\ caller' = cs
    /\ NoDraw
    /\ UNCHANGED config
    /\ UNCHANGED <<iterVars, satVars, biasVars, wiring>>

\* rand.add_constraint(c)
AddConstraint(c) ==
    /\ Idle
    /\ Len(constraints) < MaxLen /\ Len(trandConstraints) < MaxLen
    /\ LET r == NetworkAdd(c, trand, trandConstraints, constraints, graph)
       IN  /\ err' = r.err
           /\ constraints' = r.d
           /\ trandConstraints' = r.t
    /\ op' = "rand.add_constraint" /\ given' = <<c>> /\ caller' = <<c>>
    /\ NoDraw
    /\ UNCHANGED config
    /\ UNCHANGED <<iterVars, satVars, biasVars, wiring>>

\* rand.trand.constraints = cs, on a TopologyRandomizer instance
TrandSetConstraints(cs) ==
    /\ Idle
    /\ trand \in TopologyInstances
    /\ LET r == TrandAssign(trand, trandConstraints, cs, graph)
       IN  /\ err' = r.err
           /\ trandConstraints' = r.list
    /\ op' = "trand.constraints" /\ given' = cs
    /\ caller' = CallerList(trand, cs, graph)
    /\ NoDraw
    /\ UNCHANGED <<config, constraints>>
    /\ UNCHANGED <<iterVars, satVars, biasVars, wiring>>

\* rand.trand.add_constraint(c), on a TopologyRandomizer instance
TrandAddConstraint(c) ==
    /\ Idle
    /\ trand \in TopologyInstances
    /\ Len(trandConstraints) < MaxLen
    /\ LET r == TrandAdd(trand, trandConstraints, c, graph)
       IN  /\ err' = r.err
           /\ trandConstraints' = r.list
    /\ op' = "trand.add_constraint" /\ given' = <<c>> /\ caller' = <<c>>
    /\ NoDraw
    /\ UNCHANGED <<config, constraints>>
    /\ UNCHANGED <<iterVars, satVars, biasVars, wiring>>

\* rand.trand.graph = g, or rand.trand.network = a network whose graph is g,
\* on a TopologyRandomizer instance: the setter inherited from
\* AbstractRandomizer validates the type of the value and stores the graph;
\* neither TopologyRandomizer nor FixedTopology overrides it.
TrandSetGraph(g) ==
    /\ Idle
    /\ trand \in TopologyInstances
    /\ graph' = g
    /\ op' = "trand.graph" /\ given' = <<>> /\ caller' = <<>> /\ err' = "ok"
    /\ NoDraw
    /\ UNCHANGED <<phase, trandArg, timeout, trand, trandTimeout, lists>>
    /\ UNCHANGED <<iterVars, satVars, biasVars, wiring>>

\* ------------------------------------------------------------------ draws
\* A loop test that never ends the loop.
LoopGuardAlways(t, n) == TRUE

\* LoopGuard without the unbounded case.
LoopGuardBounded(t, n) == n < t

\* The test of the while loop in random(): timeout t, loop counter n.
LoopGuard(t, n) == t <= 0 \/ n < t

\* FixedRandom handing out another graph than the stored one.
FixedRandomOther(g) == (g % NumGraphs) + 1

\* FixedTopology.random() / FixedTopology._randomize(): the stored graph.
FixedRandom(g) == g

\* Randomize wiring the network over another graph than the one drawn.
RandomizeOtherGraph(g, t) == [graph |-> (g % NumGraphs) + 1, table |-> t]

\* NetworkRandomizer._randomize(topology), abstracted: a network over the
\* graph it was handed, with one of the tables the function generator can draw.
Randomize(g, t) == [graph |-> g, table |-> t]

Bit(b) == IF b THEN 1 ELSE 0

\* rand.random() is called: the first statement, topology = self.trand.random().
\* A class held in trand has no bound random(): the call raises TypeError.
\* FixedTopology.random() returns at once; any other instance enters the
\* rejection loop of AbstractRandomizer.random().
Random ==
    /\ Idle
    /\ call' = "rand" /\ op' = "none" /\ given' = <<>> /\ caller' = <<>> /\ err' = "ok"
    /\ tcalls' = IF trand \in TrandClasses THEN 0 ELSE 1
    /\ tloop' = 0 /\ loop' = 0 /\ net' = NoNet /\ raisedBy' = "none"
    /\ tgen' = 0 /\ tsat' = 0 /\ gen' = 0 /\ sat' = 0
    /\ IF trand \in TrandClasses
       THEN pc' = "done" /\ result' = "TypeError" /\ topology' = 0
       ELSE IF trand = "FixedTopologyInstance"
       THEN pc' = "loop" /\ result' = "none" /\ topology' = FixedRandom(graph)
       ELSE pc' = "trand" /\ result' = "none" /\ topology' = 0
    /\ UNCHANGED <<config, lists>>
    /\ UNCHANGED <<iterVars, satVars, biasVars, wiring>>

\* rand.trand.random() is called directly on a TopologyRandomizer instance.
TrandRandom ==
    /\ Idle
    /\ trand \in TopologyInstances
    /\ call' = "trand" /\ op' = "none" /\ given' = <<>> /\ caller' = <<>> /\ err' = "ok"
    /\ tcalls' = 1
    /\ tloop' = 0 /\ loop' = 0 /\ net' = NoNet /\ raisedBy' = "none"
    /\ tgen' = 0 /\ tsat' = 0 /\ gen' = 0 /\ sat' = 0
    /\ IF trand = "FixedTopologyInstance"
       THEN pc' = "done" /\ result' = "returned" /\ topology' = FixedRandom(graph)
       ELSE pc' = "trand" /\ result' = "none" /\ topology' = 0
    /\ UNCHANGED <<config, lists>>
    /\ UNCHANGED <<iterVars, satVars, biasVars, wiring>>

\* One pass of AbstractRandomizer.random() in trand: _randomize() yields g;
\* return it if every stored constraint is satisfied, else count the failure
\* and raise once a positive timeout is reached.
TrandAttempt(g) ==
    /\ pc = "trand"
    /\ tloop < MaxAttempts
    /\ tgen' = tgen + 1
    /\ tsat' = tsat + Bit(CheckGraph(trandConstraints, g))
    /\ IF CheckGraph(trandConstraints, g)
       THEN /\ topology' = g
            /\ tloop' = tloop
            /\ raisedBy' = "none"
            /\ IF call = "rand"
               THEN pc' = "loop" /\ result' = "none"
               ELSE pc' = "done" /\ result' = "returned"
       ELSE /\ topology' = topology
            /\ tloop' = tloop + 1
            /\ IF trandTimeout > 0 /\ tloop + 1 >= trandTimeout
               THEN pc' = "done" /\ result' = "ConstraintError" /\ raisedBy' = "trand"
               ELSE pc' = "trand" /\ result' = "none" /\ raisedBy' = "none"
    /\ UNCHANGED <<config, lists, op, given, caller, err, call, tcalls, loop, net, gen, sat>>
    /\ UNCHANGED <<iterVars, satVars, biasVars, wiring>>

\* Attempt returning the candidate without looking at _check_constraints.
AttemptUnchecked(t) ==
    /\ pc = "loop"
    /\ LoopGuard(timeout, loop)
    /\ loop < MaxAttempts
    /\ LET n == Randomize(topology, t)
       IN  /\ net' = n
           /\ gen' = gen + 1
           /\ sat' = sat + Bit(CheckNet(constraints, n))
           /\ pc' = "done" /\ result' = "returned" /\ loop' = loop
    /\ UNCHANGED <<config, lists, op, given, caller, err, call, tcalls, tloop, topology, raisedBy, tgen, tsat>>
    /\ UNCHANGED <<iterVars, satVars, biasVars, wiring>>

\* One pass of the while loop of NetworkRandomizer.random(): _randomize draws
\* a network with table t over topology; it is returned if _check_constraints
\* accepts it, else loop is incremented.
Attempt(t) ==
    /\ pc = "loop"
    /\ LoopGuard(timeout, loop)
    /\ loop < MaxAttempts
    /\ LET n == Randomize(topology, t)
       IN  /\ net' = n
           /\ gen' = gen + 1
           /\ sat' = sat + Bit(CheckNet(constraints, n))
           /\ IF CheckNet(constraints, n)
              THEN pc' = "done" /\ result' = "returned" /\ loop' = loop
              ELSE pc' = "loop" /\ result' = "none" /\ loop' = loop + 1
    /\ UNCHANGED <<config, lists, op, given, caller, err, call, tcalls, tloop, topology, raisedBy, tgen, tsat>>
    /\ UNCHANGED <<iterVars, satVars, biasVars, wiring>>

\* Raise emptying the randomizer's constraint list on its way out.
RaiseForgetting ==
    /\ pc = "loop"
    /\ ~LoopGuard(timeout, loop)
    /\ pc' = "done" /\ result' = "ConstraintError" /\ raisedBy' = "rand"
    /\ constraints' = <<>>
    /\ UNCHANGED <<config, trandConstraints, op, given, caller, err, call, tcalls, tloop,
                   loop, topology, net, tgen, tsat, gen, sat>>
    /\ UNCHANGED <<iterVars, satVars, biasVars, wiring>>

\* The while loop of NetworkRandomizer.random() ends: raise ConstraintError.
Raise ==
    /\ pc = "loop"
    /\ ~LoopGuard(timeout, loop)
    /\ pc' = "done" /\ result' = "ConstraintError" /\ raisedBy' = "rand"
    /\ UNCHANGED <<config, lists, op, given, caller, err, call, tcalls, tloop, loop, topology, net,
                   tgen, tsat, gen, sat>>
    /\ UNCHANGED <<iterVars, satVars, biasVars, wiring>>

\* ---------------------------------------------------------- specification
\* A draw changes neither the configuration nor the constraint lists of the
\* randomizers, and the setters of trand do not touch the randomizer's own
\* list, so the interface is explored in three parts.  Spec is construction
\* followed by the constraint operations of the NetworkRandomizer, over
\* lists of a satisfied topological constraint, a dynamical constraint, a
\* predicate and an integer.  SpecTopology is construction followed by the
\* constraint operations of trand itself, over every list.  SpecDraw is
\* construction with every timeout followed by draws.
NetworkInputs ==
    ConstraintInputs \ {[cls |-> "TopologicalConstraint", test |-> "allfail"]}

NetworkLists == SeqsUpTo(NetworkInputs, MaxLen)

Next ==
    \/ \E arg \in TrandArgs, cs \in NetworkLists :
           Construct(arg, cs, DefaultTimeout, DefaultTimeout)
    \/ \E cs \in NetworkLists : SetConstraints(cs)
    \/ \E c \in NetworkInputs : AddConstraint(c)

Spec == Init /\ [][Next]_vars

NextTopology ==
    \/ \E arg \in TrandArgs : Construct(arg, <<>>, DefaultTimeout, DefaultTimeout)
    \/ \E cs \in ConstraintLists : TrandSetConstraints(cs)
    \/ \E c \in ConstraintInputs : TrandAddConstraint(c)

SpecTopology == Init /\ [][NextTopology]_vars

NextDraw ==
    \/ /\ phase = "new"
       /\ \E arg \in TrandArgs, cs \in ConstraintLists, t \in Timeouts, tt \in TrandTimeouts :
              Construct(arg, cs, t, tt)
    \/ Random
    \/ TrandRandom
    \/ \E g \in Graphs : TrandAttempt(g)
    \/ \E t \in Tables : Attempt(t)
    \/ Raise

SpecDraw == Init /\ [][NextDraw]_vars

\* SpecAppend is construction without constraints followed by appends and
\* bulk assignments of one value, over the inputs of Spec and a satisfied
\* topological constraint whose class defines __call__.
AppendInputs == NetworkInputs \cup {[cls |-> "CallableTopological", test |-> "sel"]}

NextAppend ==
    \/ \E arg \in TrandArgs : Construct(arg, <<>>, DefaultTimeout, DefaultTimeout)
    \/ \E c \in AppendInputs : SetConstraints(<<c>>)
    \/ \E c \in AppendInputs : AddConstraint(c)

SpecAppend == Init /\ [][NextAppend]_vars

\* SpecFixed is a FixedTopology with its constraint operations, the
\* replacement of its reference graph and its draws.
NextFixed ==
    \/ Construct("FixedTopologyInstance", <<>>, DefaultTimeout, DefaultTimeout)
    \/ \E cs \in ConstraintLists : TrandSetConstraints(cs)
    \/ \E c \in ConstraintInputs : TrandAddConstraint(c)
    \/ \E g \in Graphs : TrandSetGraph(g)
    \/ TrandRandom

SpecFixed == Init /\ [][NextFixed]_vars

\* ----------------------------------------------------------------- claims
\* A list holds a constraint that no candidate satisfies.
HasUnsatisfiable(cs) == \E i \in 1..Len(cs) : cs[i].test = "allfail"

\* C1: random() returns the first candidate, in generation order, that every
\* stored constraint accepts: what it returns passes every stored constraint,
\* every candidate generated before it was rejected, and no candidate is
\* generated once one has passed.  Stated for the loop of rand (networks)
\* and for the loop of trand (graphs).
ReturnsFirstSatisfying ==
    /\ sat <= 1 /\ tsat <= 1
    /\ (pc = "loop") => (sat = 0 /\ gen = loop)
    /\ (pc = "trand") => (tsat = 0 /\ tgen = tloop)
    /\ (sat = 1) => (pc = "done" /\ result = "returned")
    /\ (tsat = 1) => (pc # "trand" /\ CheckGraph(trandConstraints, topology))
    /\ (call = "rand" /\ result = "returned")
           => (CheckNet(constraints, net) /\ sat = 1 /\ gen = loop + 1)
    /\ (call = "trand" /\ result = "returned" /\ trand # "FixedTopologyInstance")
           => (CheckGraph(trandConstraints, topology) /\ tsat = 1 /\ tgen = tloop + 1)

\* rand.random() returned a network after rejecting at least one candidate.
ReturnsFirstSatisfyingWitness ==
    /\ call = "rand" /\ result = "returned"
    /\ loop >= 1 /\ Len(constraints) >= 1

RaisesAfterExactlyTimeout ==
    (call = "rand" /\ pc = "done" /\ timeout > 0 /\ HasUnsatisfiable(constraints))
        => (result = "ConstraintError" /\ gen = timeout)

\* C4 as claimed: with timeout <= 0, random() never raises a
\* constraint-violation error.
UnboundedNeverRaises ==
    (call = "rand" /\ timeout <= 0) => result # "ConstraintError"

\* C4 as amended: with timeout <= 0 the randomizer's own loop never raises,
\* however many candidates it rejects, and the call returns as soon as a
\* candidate passes; the only constraint-violation error such a call can end
\* with is the one raised inside trand.random() by a rejection-sampling
\* trand whose own timeout is positive.  The same holds of trand's loop.
UnboundedLoopNeverRaises ==
    /\ (timeout <= 0) => raisedBy # "rand"
    /\ (trandTimeout <= 0) => raisedBy # "trand"
    /\ (call = "rand" /\ timeout <= 0 /\ result = "ConstraintError")
           => /\ raisedBy = "trand" /\ gen = 0
              /\ trand \in TrandInstances \ {"FixedTopologyInstance"}
              /\ trandTimeout > 0
    /\ (call = "rand" /\ timeout <= 0 /\ pc = "loop") => (sat = 0 /\ gen = loop)
    /\ (timeout <= 0 /\ sat >= 1) => (result = "returned" /\ CheckNet(constraints, net))

\* An unbounded call went on after two rejections and then returned.
UnboundedLoopNeverRaisesWitness ==
    /\ call = "rand" /\ timeout <= 0
    /\ loop >= 2 /\ result = "returned"

\* C7: FixedTopology.random() returns the stored reference graph and never
\* raises a constraint-violation error, called directly or by rand.random().
FixedTopologyReturnsGraph ==
    (trand = "FixedTopologyInstance")
        => /\ raisedBy # "trand"
           /\ (call = "trand" /\ pc # "idle")
                  => (pc = "done" /\ result = "returned" /\ topology = graph)
           /\ (call = "rand" /\ pc # "idle") => topology = graph

\* FixedTopology.random() returned while the randomizer held a constraint.
FixedTopologyReturnsGraphWitness ==
    /\ trand = "FixedTopologyInstance" /\ call = "trand"
    /\ result = "returned" /\ Len(trandConstraints) >= 1

\* A value that is no constraint of either family and not callable.
Untyped(c) == ~IsTopological(c) /\ ~IsDynamical(c) /\ ~Callable(c)

OwnElement(c) == IsDynamical(c) \/ Callable(c)
OwnStored(c) == IF Callable(c) THEN GenericDynamical(c) ELSE c
TopologyStored(c) == IF Callable(c) THEN GenericTopological(c) ELSE c

\* The topological constraints of cs, in the order of cs.
TopologicalPart(cs) == SelectSeq(cs, IsTopological)

\* The dynamical constraints and bare predicates of cs, in the order of cs,
\* each predicate wrapped in GenericDynamical.
DynamicalPart(cs) ==
    LET kept == SelectSeq(cs, OwnElement)
    IN  [i \in 1..Len(kept) |-> OwnStored(kept[i])]

FixedTopologyRejectsEagerly ==
    [][/\ (trand = "FixedTopologyInstance"
              /\ op' \in {"trand.constraints", "trand.add_constraint"})
          => LET cs == given'
             IN  /\ IF op' = "trand.constraints"
                    THEN TrandSetConstraints(cs)
                    ELSE TrandAddConstraint(cs[1])
                 /\ (/\ \A i \in 1..Len(cs) : IsTopological(cs[i]) \/ Callable(cs[i])
                     /\ \E i \in 1..Len(cs) : ~GraphSatisfies(cs[i], graph))
                       => err' = "ConstraintError"
                 /\ (err' # "ok") => trandConstraints' = trandConstraints
       /\ (trand' = "FixedTopologyInstance")
             => \A i \in 1..Len(trandConstraints') :
                   GraphSatisfies(trandConstraints'[i], graph')]_vars

\* A bulk assignment to a FixedTopology holding a constraint failed with a
\* constraint-violation error at the second element of the list.
FixedTopologyRejectsEagerlyWitness ==
    /\ trand = "FixedTopologyInstance"
    /\ op = "trand.constraints" /\ err = "ConstraintError"
    /\ Len(trandConstraints) >= 1
    /\ Len(given) = 2 /\ GraphSatisfies(given[1], graph)

\* C8: the constraint list of a TopologyRandomizer holds TopologicalConstraint
\* instances only.  A bulk assignment or append that completes stores every
\* bare predicate wrapped in GenericTopological and every topological
\* constraint as it is; one that is handed a dynamical constraint or a
\* non-callable value fails and leaves the stored list unchanged, with a
\* type error when the setter is TopologyRandomizer's own.
TopologyListTyped ==
    [][/\ (trand' \in TopologyInstances)
          => \A i \in 1..Len(trandConstraints') : IsTopological(trandConstraints'[i])
       /\ (trand \in TopologyInstances /\ op' = "trand.constraints")
          => LET cs == given'
             IN  /\ TrandSetConstraints(cs)
                 /\ IF \E i \in 1..Len(cs) : ~IsTopological(cs[i]) /\ ~Callable(cs[i])
                    THEN /\ err' # "ok"
                         /\ trandConstraints' = trandConstraints
                         /\ (trand = "MockTopologyRandomizerInstance") => err' = "TypeError"
                    ELSE /\ (trand = "MockTopologyRandomizerInstance") => err' = "ok"
                         /\ (err' = "ok")
                               => trandConstraints' =
                                      [i \in 1..Len(cs) |-> TopologyStored(cs[i])]
       /\ (trand \in TopologyInstances /\ op' = "trand.add_constraint")
          => LET c == given'[1]
             IN  /\ TrandAddConstraint(c)
                 /\ IF ~IsTopological(c) /\ ~Callable(c)
                    THEN err' = "TypeError" /\ trandConstraints' = trandConstraints
                    ELSE /\ (trand = "MockTopologyRandomizerInstance") => err' = "ok"
                         /\ (err' = "ok")
                               => trandConstraints' =
                                      Append(trandConstraints, TopologyStored(c))]_vars

\* A bulk assignment of a list with a dynamical constraint in second place,
\* to a TopologyRandomizer holding a wrapped predicate, failed with a type
\* error.
TopologyListTypedWitness ==
    /\ trand = "MockTopologyRandomizerInstance"
    /\ op = "trand.constraints" /\ err = "TypeError"
    /\ Len(trandConstraints) >= 1
    /\ trandConstraints[1].cls = "GenericTopological"
    /\ Len(given) = 2 /\ IsDynamical(given[2])

\* C9: bulk-assigning to a NetworkRandomizer a list that holds, at any
\* position, a value that is neither callable nor a constraint of either
\* family, or appending such a value, raises a type error and leaves both
\* the randomizer's own list and trand.constraints as they were.
UntypedRejectedUnchanged ==
    [][(/\ op' \in {"rand.constraints", "rand.add_constraint"}
        /\ \E i \in 1..Len(given') : Untyped(given'[i]))
          => /\ IF op' = "rand.constraints"
                THEN SetConstraints(given')
                ELSE AddConstraint(given'[1])
             /\ err' = "TypeError"
             /\ constraints' = constraints
             /\ trandConstraints' = trandConstraints]_vars

\* A bulk assignment of a list with an untyped value in second place, to a
\* NetworkRandomizer holding constraints at both stages, failed with a type
\* error.
UntypedRejectedUnchangedWitness ==
    /\ op = "rand.constraints" /\ err = "TypeError"
    /\ Len(constraints) >= 1 /\ Len(trandConstraints) >= 1
    /\ Len(given) = 2 /\ Untyped(given[2]) /\ ~Untyped(given[1])

\* C10: once a NetworkRandomizer is constructed, trand is a TopologyRandomizer
\* instance: a FixedTopology with the randomizer's timeout when trand was
\* omitted, an instance of the given class with the randomizer's timeout
\* when a TopologyRandomizer subclass was given, the given object when an
\* instance was given; any other trand makes construction fail with a type
\* error.
TrandIsTopologyRandomizer ==
    /\ (phase = "ready")
           => /\ trand \in TopologyInstances
              /\ (trandArg = "None")
                     => (trand = "FixedTopologyInstance" /\ trandTimeout = timeout)
              /\ (trandArg = "MockTopologyRandomizerClass")
                     => (trand = "MockTopologyRandomizerInstance" /\ trandTimeout = timeout)
              /\ (trandArg \in TopologyInstances) => trand = trandArg
    /\ (phase # "new" /\ trandArg \in {"AbstractRandomizerClass", "AbstractRandomizerInstance"})
           => (phase = "failed" /\ err = "TypeError")

\* ============================================================== iteration
\* A MockRandomizer (an AbstractRandomizer whose _randomize returns the empty
\* graph on counter nodes and then increments counter) and one iterator over
\* it.  A graph is identified by its number of nodes.
MaxCalls == 3        \* random() calls made on the mock randomizer

IterTests == {"any", "odd", "allfail"}

\* The predicate of the mock's single constraint on a graph of n nodes.
Accepts(test, n) == test = "any" \/ (test = "odd" /\ n % 2 = 1)

Graph(n) == [kind |-> "graph", size |-> n]
Raised(e) == [kind |-> e, size |-> 0]

\* AbstractRandomizer.random() on the mock, from loop counter n on: the
\* result and the value counter has afterwards.  A call that would loop
\* beyond MaxAttempts candidates is one that does not return.
RECURSIVE MockRandom(_, _, _, _)
MockRandom(test, t, counter, n) ==
    IF n >= MaxAttempts THEN [result |-> Raised("diverges"), counter |-> counter]
    ELSE IF Accepts(test, counter)
         THEN [result |-> Graph(counter), counter |-> counter + 1]
    ELSE IF t > 0 /\ n + 1 >= t
         THEN [result |-> Raised("ConstraintError"), counter |-> counter + 1]
    ELSE MockRandom(test, t, counter + 1, n + 1)

Returns(r) == r.result.kind # "diverges"

InitIter ==
    /\ NoRandomizer /\ NoSubject /\ NoBias /\ NoWiring
    /\ mock \in [test : IterTests, timeout : 0..MaxTimeout, counter : {0}]
    /\ log = <<>>
    /\ iter = [open |-> FALSE, requests |-> 0, taken |-> <<>>, raised |-> 0]

\* iter(rand): creates the iterator; nothing is drawn.
IterOpen ==
    /\ ~iter.open
    /\ iter' = [iter EXCEPT !.open = TRUE]
    /\ UNCHANGED <<vars_rand, mock, log, satVars, biasVars, wiring>>

\* IterNext drawing a second element ahead of the request.
IterNextEager ==
    /\ iter.open
    /\ Len(log) + 1 < MaxCalls
    /\ LET r == MockRandom(mock.test, mock.timeout, mock.counter, 0)
           q == MockRandom(mock.test, mock.timeout, r.counter, 0)
       IN  /\ Returns(r) /\ Returns(q)
           /\ mock' = [mock EXCEPT !.counter = q.counter]
           /\ log' = log \o <<[by |-> "iter", result |-> r.result],
                              [by |-> "iter", result |-> q.result]>>
           /\ iter' = [iter EXCEPT
                         !.requests = @ + 1,
                         !.taken = IF r.result.kind = "graph"
                                   THEN Append(@, r.result) ELSE @,
                         !.raised = IF r.result.kind = "graph" THEN @ ELSE @ + 1]
    /\ UNCHANGED <<vars_rand, satVars, biasVars, wiring>>

\* next(it): one call of random(); its result is the element handed to the
\* consumer, its constraint-violation error is raised to the consumer.
IterNext ==
    /\ iter.open
    /\ Len(log) < MaxCalls
    /\ LET r == MockRandom(mock.test, mock.timeout, mock.counter, 0)
       IN  /\ Returns(r)
           /\ mock' = [mock EXCEPT !.counter = r.counter]
           /\ log' = Append(log, [by |-> "iter", result |-> r.result])
           /\ iter' = [iter EXCEPT
                         !.requests = @ + 1,
                         !.taken = IF r.result.kind = "graph"
                                   THEN Append(@, r.result) ELSE @,
                         !.raised = IF r.result.kind = "graph" THEN @ ELSE @ + 1]
    /\ UNCHANGED <<vars_rand, satVars, biasVars, wiring>>

\* rand.random() called by the consumer itself, between two elements.
DirectRandom ==
    /\ Len(log) < MaxCalls
    /\ LET r == MockRandom(mock.test, mock.timeout, mock.counter, 0)
       IN  /\ Returns(r)
           /\ mock' = [mock EXCEPT !.counter = r.counter]
           /\ log' = Append(log, [by |-> "direct", result |-> r.result])
    /\ UNCHANGED <<vars_rand, iter, satVars, biasVars, wiring>>

NextIter == IterOpen \/ IterNext \/ DirectRandom

SpecIter == InitIter /\ [][NextIter]_vars

ByIter(e) == e.by = "iter"
IsGraph(e) == e.result.kind = "graph"

\* C11: the iterator makes one call of random() per element requested, only
\* when it is requested and in the order of the requests, so the elements
\* taken are the results of its calls in order; N elements taken with no
\* error cost exactly N calls, which on an unconstrained mock are the graphs
\* of 0, 1, ..., N-1 nodes; creating the iterator draws nothing, and the
\* iterator stays open after every element and every error.
IterationIsLazy ==
    LET calls == SelectSeq(log, ByIter)
        good == SelectSeq(calls, IsGraph)
    IN  /\ Len(calls) = iter.requests
        /\ Len(iter.taken) + iter.raised = iter.requests
        /\ Len(iter.taken) = Len(good)
        /\ \A i \in 1..Len(good) : iter.taken[i] = good[i].result
        /\ (iter.requests > 0) => iter.open
        /\ (mock.test = "any" /\ Len(calls) = Len(log))
               => \A i \in 1..Len(iter.taken) : iter.taken[i].size = i - 1

\* Three elements were taken from an unconstrained mock with three calls.
IterationIsLazyWitness ==
    /\ mock.test = "any" /\ Len(iter.taken) = 3 /\ Len(log) = 3
    /\ iter.taken[3].size = 2

\* ============================================================ constraints
\* The concrete constraints and their satisfies() method.  A directed graph
\* is [type, n, edges] over the nodes 1..n; a network is [type, size]; a
\* row of a logic table is [k, on]: the number of predecessors and the set of
\* input patterns (bit strings of length k) on which the node turns on.
MaxNodes == 3        \* nodes of a graph
MaxEdges == 2        \* edges of a graph
MaxSize == 2         \* nodes of a network
MaxArity == 2        \* predecessors of a node of a network

GraphsOn(n) ==
    {[type |-> "DiGraph", n |-> n, edges |-> E] :
        E \in {F \in SUBSET ((1..n) \X (1..n)) : Cardinality(F) <= MaxEdges}}

DiGraphs == UNION {GraphsOn(n) : n \in 0..MaxNodes}

\* The graphs a HasExternalNodes target is taken from.
ReferenceGraphs == {g \in DiGraphs : Cardinality(g.edges) <= 1}

Networks == [type : {"LogicNetwork", "WTNetwork"}, size : 0..MaxSize]

\* An undirected graph and an integer: subjects of neither kind.
Others == {[type |-> "Graph"], [type |-> "int"]}

Subjects == DiGraphs \cup Networks \cup Others

IsDiGraph(x) == x.type = "DiGraph"
IsNetwork(x) == x.type \in {"LogicNetwork", "WTNetwork"}

Targets ==
    [type : {"int"}, value : (0 - 1)..MaxNodes] \cup ReferenceGraphs \cup {[type |-> "str"]}

Bits(k) == [1..k -> {0, 1}]
Rows == UNION {[k : {k}, on : SUBSET Bits(k)] : k \in 0..MaxArity}

\* InDegree with a self-loop not counted.
InDegreeNoLoops(g, v) == Cardinality({e \in g.edges : e[2] = v /\ e[1] # v})

\* g.in_degree() of node v: the edges that end in v, a self-loop included.
InDegree(g, v) == Cardinality({e \in g.edges : e[2] = v})

\* HasExternalNodes.__count_external
CountExternal(g) == Cardinality({v \in 1..g.n : InDegree(g, v) = 0})

\* HasExternalNodes.__init__: the constraint, or the error raised.
HasExternalNodes(target) ==
    IF target.type = "int"
    THEN IF target.value < 0
         THEN [cls |-> "ValueError", target |-> target]
         ELSE [cls |-> "HasExternalNodes", num_external |-> target.value, target |-> target]
    ELSE IF IsDiGraph(target)
    THEN [cls |-> "HasExternalNodes", num_external |-> CountExternal(target),
          target |-> target]
    ELSE [cls |-> "TypeError", target |-> target]

\* The nodes one edge away, in either direction, from a node of S.
Neighbours(g, S) ==
    {v \in 1..g.n : \E u \in S : <<u, v>> \in g.edges \/ <<v, u>> \in g.edges}

\* The weakly connected component that holds the nodes S.
RECURSIVE Component(_, _)
Component(g, S) ==
    LET T == S \cup Neighbours(g, S)
    IN  IF T = S THEN S ELSE Component(g, T)

\* IsWeaklyConnected looking one edge away from the first node only.
IsWeaklyConnectedOneStep(g) == Cardinality({1} \cup Neighbours(g, {1})) = g.n

\* nx.is_weakly_connected on a graph with at least one node: the component
\* of the first node is the whole graph.
IsWeaklyConnected(g) == Cardinality(Component(g, {1})) = g.n

Bool(b) == [kind |-> "bool", value |-> b, evaluated |-> TRUE]
Error(e, ran) == [kind |-> e, value |-> FALSE, evaluated |-> ran]

\* TopologicalSatisfies with the type check left out: a subject that is no
\* directed graph is handed to the constraint's own test.
TopologicalSatisfiesUntyped(c, x) ==
    IF ~IsDiGraph(x) THEN Error("AttributeError", TRUE)
    ELSE IF c.cls = "HasExternalNodes" THEN Bool(CountExternal(x) = c.num_external)
    ELSE IF c.cls = "IsConnected"
         THEN IF x.n = 0 THEN Error("ConstraintError", TRUE)
              ELSE Bool(IsWeaklyConnected(x))
    ELSE Bool(c.test = "true")

\* satisfies() of a topological constraint c on x: TopologicalConstraint's
\* type check first, then the constraint's own test.
TopologicalSatisfies(c, x) ==
    IF ~IsDiGraph(x) THEN Error("TypeError", FALSE)
    ELSE IF c.cls = "HasExternalNodes" THEN Bool(CountExternal(x) = c.num_external)
    ELSE IF c.cls = "IsConnected"
         THEN IF x.n = 0 THEN Error("ConstraintError", TRUE)
              ELSE Bool(IsWeaklyConnected(x))
    ELSE Bool(c.test = "true")

\* The pattern b without its j-th bit.
Without(b, j) == [i \in 1..(Len(b) - 1) |-> IF i < j THEN b[i] ELSE b[i + 1]]

\* network.is_dependent(node, j-th predecessor): among the on-patterns that
\* agree outside bit j, those with bit j set and those with bit j clear are
\* not equally many.
IsDependent(row, j) ==
    LET set == {c \in row.on : c[j] = 1}
        clear == {c \in row.on : c[j] = 0}
    IN  \E b \in row.on :
            Cardinality({c \in set : Without(c, j) = Without(b, j)})
                # Cardinality({c \in clear : Without(c, j) = Without(b, j)})

\* FirstIndependent looking at the first predecessor only.
FirstIndependentOnly(row, j) ==
    IF j > row.k THEN 0
    ELSE IF ~IsDependent(row, j) THEN j
    ELSE 0

\* The first predecessor, from the j-th on, the node does not depend on;
\* 0 if it depends on all of them.
RECURSIVE FirstIndependent(_, _)
FirstIndependent(row, j) ==
    IF j > row.k THEN 0
    ELSE IF ~IsDependent(row, j) THEN j
    ELSE FirstIndependent(row, j + 1)

InitSatisfies ==
    /\ NoRandomizer /\ NoMock /\ NoBias /\ NoWiring
    /\ constraint = [cls |-> "none"]
    /\ subject \in Subjects
    /\ outcome = [kind |-> "none"]
    /\ scan = [idx |-> 0, rows |-> <<>>, calls |-> 0]

Unbuilt == constraint.cls = "none"

MakeHasExternalNodes(target) ==
    /\ Unbuilt
    /\ constraint' = HasExternalNodes(target)
    /\ UNCHANGED <<vars_rand, iterVars, biasVars, wiring, subject, outcome, scan>>

MakeIsConnected ==
    /\ Unbuilt
    /\ constraint' = [cls |-> "IsConnected"]
    /\ UNCHANGED <<vars_rand, iterVars, biasVars, wiring, subject, outcome, scan>>

MakeIsIrreducible ==
    /\ Unbuilt
    /\ constraint' = [cls |-> "IsIrreducible"]
    /\ UNCHANGED <<vars_rand, iterVars, biasVars, wiring, subject, outcome, scan>>

\* GenericTopological(lambda _: True) or GenericTopological(lambda _: False)
MakeGenericTopological(test) ==
    /\ Unbuilt
    /\ constraint' = [cls |-> "GenericTopological", test |-> test]
    /\ UNCHANGED <<vars_rand, iterVars, biasVars, wiring, subject, outcome, scan>>

MakeGenericDynamical(test) ==
    /\ Unbuilt
    /\ constraint' = [cls |-> "GenericDynamical", test |-> test]
    /\ UNCHANGED <<vars_rand, iterVars, biasVars, wiring, subject, outcome, scan>>

TopologicalClasses == {"HasExternalNodes", "IsConnected", "GenericTopological"}
DynamicalClasses == {"IsIrreducible", "GenericDynamical"}

\* constraint.satisfies(subject).  IsIrreducible on a logic network enters
\* its loop over the nodes; every other call ends at once.
Satisfies ==
    /\ constraint.cls \in TopologicalClasses \cup DynamicalClasses
    /\ outcome.kind = "none"
    /\ scan' = [idx |-> 0, rows |-> <<>>, calls |-> 0]
    /\ outcome' =
         IF constraint.cls \in TopologicalClasses
         THEN TopologicalSatisfies(constraint, subject)
         ELSE IF ~IsNetwork(subject) THEN Error("TypeError", FALSE)
         ELSE IF constraint.cls = "GenericDynamical" THEN Bool(constraint.test = "true")
         ELSE IF subject.type # "LogicNetwork" THEN Error("NotImplementedError", TRUE)
         ELSE IF subject.size = 0 THEN Bool(TRUE)
         ELSE [kind |-> "running", value |-> FALSE, evaluated |-> TRUE]
    /\ UNCHANGED <<vars_rand, iterVars, biasVars, wiring, constraint, subject>>

\* One pass of the outer loop of IsIrreducible.satisfies, over the node
\* idx whose table row is row: is_dependent is asked of its predecessors in
\* turn and the first "no" returns False; after the last node, True.
ScanNode(row) ==
    /\ outcome.kind = "running"
    /\ row.k <= subject.size
    /\ LET j == FirstIndependent(row, 1)
       IN  /\ scan' = [idx |-> IF j = 0 THEN scan.idx + 1 ELSE scan.idx,
                       rows |-> <<row>>,
                       calls |-> IF j = 0 THEN row.k ELSE j]
           /\ outcome' = IF j # 0 THEN Bool(FALSE)
                         ELSE IF scan.idx + 1 = subject.size THEN Bool(TRUE)
                         ELSE outcome
    /\ UNCHANGED <<vars_rand, iterVars, biasVars, wiring, constraint, subject>>

NextSatisfies ==
    \/ \E target \in Targets : MakeHasExternalNodes(target)
    \/ MakeIsConnected
    \/ MakeIsIrreducible
    \/ \E test \in {"true", "false"} : MakeGenericTopological(test)
    \/ \E test \in {"true", "false"} : MakeGenericDynamical(test)
    \/ Satisfies
    \/ \E row \in Rows : ScanNode(row)

SpecSatisfies == InitSatisfies /\ [][NextSatisfies]_vars

\* The nodes of g that no edge ends in.
Externals(g) == {v \in 1..g.n : \A u \in 1..g.n : <<u, v>> \notin g.edges}

\* C12: HasExternalNodes built from a non-negative integer t, or from a
\* directed graph with t nodes of in-degree 0, is satisfied by a directed
\* graph exactly when t of its nodes have no incoming edge, a self-loop
\* being an incoming edge; a negative integer is refused with a value error
\* and a target that is neither an integer nor a directed graph with a type
\* error.
ExternalNodesExact ==
    (constraint.cls \in {"HasExternalNodes", "ValueError", "TypeError"})
        => LET target == constraint.target
               t == IF target.type = "int" THEN target.value
                    ELSE Cardinality(Externals(target))
           IN  /\ (target.type = "int" /\ target.value < 0) => constraint.cls = "ValueError"
               /\ (target.type = "int" /\ target.value >= 0)
                      => constraint.cls = "HasExternalNodes"
               /\ IsDiGraph(target) => constraint.cls = "HasExternalNodes"
               /\ (target.type \notin {"int", "DiGraph"}) => constraint.cls = "TypeError"
               /\ (constraint.cls = "HasExternalNodes" /\ IsDiGraph(subject)
                      /\ outcome.kind # "none")
                      => /\ outcome.kind = "bool"
                         /\ outcome.value = (Cardinality(Externals(subject)) = t)

\* A constraint built from a reference graph is satisfied by a graph of two
\* nodes, one external, the other with a self-loop as its only edge.
ExternalNodesExactWitness ==
    /\ constraint.cls = "HasExternalNodes" /\ IsDiGraph(constraint.target)
    /\ IsDiGraph(subject) /\ subject.n = 2 /\ subject.edges = {<<1, 1>>}
    /\ outcome.kind = "bool" /\ outcome.value

\* No edge of g leaves the set of nodes S or enters it.
Isolated(g, S) == \A e \in g.edges : (e[1] \in S) = (e[2] \in S)

\* C13: IsConnected.satisfies on a directed graph with at least one node
\* returns true exactly when the graph is weakly connected (its nodes cannot
\* be split in two parts with no edge between them), and on the null graph
\* it raises ConstraintError.
ConnectedExact ==
    (constraint.cls = "IsConnected" /\ IsDiGraph(subject) /\ outcome.kind # "none")
        => IF subject.n = 0
           THEN outcome.kind = "ConstraintError"
           ELSE /\ outcome.kind = "bool"
                /\ outcome.value =
                     (\A S \in SUBSET (1..subject.n) :
                         (S # {} /\ S # 1..subject.n) => ~Isolated(subject, S))

\* A graph of three nodes whose first node is joined to the third only
\* through the second was found connected.
ConnectedExactWitness ==
    /\ constraint.cls = "IsConnected" /\ IsDiGraph(subject) /\ subject.n = 3
    /\ outcome.kind = "bool" /\ outcome.value
    /\ <<1, 3>> \notin subject.edges /\ <<3, 1>> \notin subject.edges

\* C14 as claimed: satisfies() of a topological constraint raises a type
\* error on a subject that is no directed graph, that of a dynamical
\* constraint on a subject that is no network, in both cases before the
\* constraint's own test runs, and on a subject of the right type it always
\* yields a boolean.
SatisfiesTypedBoolean ==
    (outcome.kind \notin {"none", "running"})
        => /\ (constraint.cls \in TopologicalClasses /\ ~IsDiGraph(subject))
                  => (outcome.kind = "TypeError" /\ ~outcome.evaluated)
           /\ (constraint.cls \in DynamicalClasses /\ ~IsNetwork(subject))
                  => (outcome.kind = "TypeError" /\ ~outcome.evaluated)
           /\ (constraint.cls \in TopologicalClasses /\ IsDiGraph(subject))
                  => outcome.kind = "bool"
           /\ (constraint.cls \in DynamicalClasses /\ IsNetwork(subject))
                  => outcome.kind = "bool"

\* C14 as amended: as above, except that on a subject of the right type
\* IsConnected raises ConstraintError for the null graph and IsIrreducible
\* raises a not-implemented error for a network that is no logic network;
\* every other call on a subject of the right type yields a boolean.
SatisfiesTypedFirst ==
    (outcome.kind \notin {"none", "running"})
        => /\ (constraint.cls \in TopologicalClasses /\ ~IsDiGraph(subject))
                  => (outcome.kind = "TypeError" /\ ~outcome.evaluated)
           /\ (constraint.cls \in DynamicalClasses /\ ~IsNetwork(subject))
                  => (outcome.kind = "TypeError" /\ ~outcome.evaluated)
           /\ (constraint.cls \in TopologicalClasses /\ IsDiGraph(subject))
                  => IF constraint.cls = "IsConnected" /\ subject.n = 0
                     THEN outcome.kind = "ConstraintError"
                     ELSE outcome.kind = "bool"
           /\ (constraint.cls \in DynamicalClasses /\ IsNetwork(subject))
                  => IF constraint.cls = "IsIrreducible" /\ subject.type # "LogicNetwork"
                     THEN outcome.kind = "NotImplementedError"
                     ELSE outcome.kind = "bool"

\* A topological constraint was asked about a network and raised a type
\* error.
SatisfiesTypedFirstWitness ==
    /\ constraint.cls = "HasExternalNodes" /\ IsNetwork(subject)
    /\ outcome.kind = "TypeError" /\ ~outcome.evaluated

\* Some pair of patterns that differ in bit j only is split by the on-set.
Sensitive(row, j) ==
    \E a, b \in Bits(row.k) :
        /\ a[j] # b[j]
        /\ \A i \in 1..row.k : i # j => a[i] = b[i]
        /\ (a \in row.on) # (b \in row.on)

\* C15: IsIrreducible.satisfies on a logic network goes through the nodes
\* in order; a node whose on-set is sensitive to every one of its
\* predecessors (a node without predecessors always is) lets the loop go
\* on, and True is returned after the last node; the first node that is
\* insensitive to one of its predecessors ends the call with False, at the
\* first predecessor it does not depend on.  On a network that is no logic
\* network the call raises a not-implemented error.
IrreducibleExact ==
    [][(constraint.cls = "IsIrreducible" /\ IsNetwork(subject))
          => /\ (outcome.kind = "none" /\ outcome'.kind # "none")
                   => IF subject.type # "LogicNetwork"
                      THEN outcome'.kind = "NotImplementedError"
                      ELSE IF subject.size = 0
                      THEN outcome'.kind = "bool" /\ outcome'.value
                      ELSE outcome'.kind = "running" /\ scan'.idx = 0
             /\ (outcome.kind = "running")
                   => LET row == scan'.rows[1]
                          bad == {j \in 1..row.k : ~Sensitive(row, j)}
                      IN  IF bad = {}
                          THEN /\ scan'.idx = scan.idx + 1
                               /\ scan'.calls = row.k
                               /\ IF scan'.idx = subject.size
                                  THEN outcome'.kind = "bool" /\ outcome'.value
                                  ELSE outcome'.kind = "running"
                          ELSE /\ outcome'.kind = "bool" /\ ~outcome'.value
                               /\ scan'.idx = scan.idx
                               /\ \E j \in bad :
                                     /\ \A i \in bad : j <= i
                                     /\ scan'.calls = j
             /\ (outcome.kind \notin {"none", "running"}) => outcome' = outcome]_vars

\* A network of two nodes was found irreducible, its second node depending
\* on both of its predecessors.
IrreducibleExactWitness ==
    /\ constraint.cls = "IsIrreducible" /\ subject.type = "LogicNetwork"
    /\ subject.size = 2 /\ scan.idx = 2 /\ scan.rows[1].k = 2
    /\ outcome.kind = "bool" /\ outcome.value



\* =================================================================== bias
\* UniformBias and MeanBias (dynamics.py): NetworkRandomizers whose
\* _randomize gives every node of the drawn topology a random on-set through
\* _random_function(k, p), k being the node's in-degree.
MaxDen == 4          \* largest denominator of a target bias handed to UniformBias

RECURSIVE GCD(_, _)
GCD(a, b) == IF b = 0 THEN a ELSE GCD(b, a % b)

\* The number num / den.  The code computes with floats, where equal numbers
\* are one value: a number is kept as its fraction in lowest terms.
Fraction(num, den) ==
    [num |-> num \div GCD(num, den), den |-> den \div GCD(num, den)]

\* A target bias p is a number between 0 and 1.
Probabilities == UNION {{Fraction(n, d) : n \in 0..d} : d \in 1..MaxDen}

RECURSIVE Pow2(_)
Pow2(k) == IF k = 0 THEN 1 ELSE 2 * Pow2(k - 1)

\* divmod rounding p * volume up instead of down.
DivModCeiling(k, p) ==
    [integer |-> (p.num * Pow2(k) + p.den - 1) \div p.den,
     decimal |-> (p.num * Pow2(k)) % p.den]

\* integer, decimal = divmod(p * volume, 1) with volume = 2**k: the whole
\* part of p * volume, and what is left of it counted in units of 1 / p.den.
DivMod(k, p) ==
    [integer |-> (p.num * Pow2(k)) \div p.den,
     decimal |-> (p.num * Pow2(k)) % p.den]

\* The two probabilities in the other order.
WeightsSwapped(k, p) == <<DivMod(k, p).decimal, p.den - DivMod(k, p).decimal>>

\* p=[1 - decimal, decimal], the probabilities of 0 and of 1 handed to
\* np.random.choice(2, ...), in units of 1 / p.den.
Weights(k, p) == <<p.den - DivMod(k, p).decimal, DivMod(k, p).decimal>>

\* A choice that ignores the probabilities.
Choice2Any(w) == {0, 1}

\* np.random.choice(2, p=w): 0 or 1, each only if its probability is not 0.
Choice2(w) == {b \in {0, 1} : w[b + 1] > 0}

\* num_states = int(integer + np.random.choice(2, p=[1 - decimal, decimal])):
\* the values it can take.
NumStates(k, p) == {DivMod(k, p).integer + b : b \in Choice2(Weights(k, p))}

\* np.random.choice(volume, num_states, replace=False): num_states distinct
\* indices below volume.
Indices(volume, n) == {I \in SUBSET (0..(volume - 1)) : Cardinality(I) = n}

\* The binary digits of i, at least one of them.
RECURSIVE Binary(_)
Binary(i) == IF i < 2 THEN <<i>> ELSE Append(Binary(i \div 2), i % 2)

\* '{0:0{1}b}'.format(index, k): the binary digits of index, padded with
\* zeros on the left to k digits.  The digits are never cut: 0 formatted to
\* no digits is still '0'.
Format(index, k) ==
    LET digits == Binary(index)
    IN  IF Len(digits) >= k THEN digits
        ELSE [j \in 1..(k - Len(digits)) |-> 0] \o digits

\* The topology randomizers a bias randomizer is constructed with: none (the
\* default), a class, an instance.
BiasTrands == {"None", "MockTopologyRandomizerClass", "FixedTopologyInstance"}

\* A row of the reference network's table, by what _mean_bias reads of it:
\* the number k of its predecessors and the size n of its on-set.
TableRows == UNION {[k : {k}, n : 0..Pow2(k)] : k \in 0..MaxArity}

\* The networks MeanBias is constructed over: logic networks of 1..MaxSize
\* nodes and a network that is no logic network.
References ==
    [type : {"LogicNetwork"}, table : SeqsUpTo(TableRows, MaxSize) \ {<<>>}]
        \cup {[type |-> "WTNetwork"]}

\* The sum of len(row[1]) / 2**len(row[0]) over the rows, in units of
\* 1 / 2**MaxArity.
RECURSIVE SumBias(_)
SumBias(table) ==
    IF table = <<>> THEN 0
    ELSE table[1].n * Pow2(MaxArity - table[1].k) + SumBias(Tail(table))

\* The sum of the rows' biases, not divided by their number.
TotalBias(network) == Fraction(SumBias(network.table), Pow2(MaxArity))

\* MeanBias._mean_bias(network): np.mean of the rows' biases.
MeanBiasOf(network) ==
    Fraction(SumBias(network.table), Len(network.table) * Pow2(MaxArity))

\* NetworkRandomizer.__init__ under UniformBias.__init__, called without
\* constraints: trand is stored as given and the empty constraint list is
\* assigned through the setter; self.p = p follows if that did not raise.
NewBias(cls, p, t) ==
    LET r == NetworkSetter(<<>>, t, <<>>, <<>>, 1)
    IN  IF r.err = "ok" THEN [cls |-> cls, p |-> p, trand |-> t]
        ELSE [cls |-> r.err]

IsBias(b) == b.cls \in {"UniformBias", "MeanBias"}

\* A reference network is at hand and no randomizer has been built on it.
InitBias ==
    /\ NoRandomizer /\ NoMock /\ NoSubject /\ NoWiring
    /\ bias = [cls |-> "none"]
    /\ biasArg \in References
    /\ fn = [k |-> 0, weights |-> <<0, 0>>, num_states |-> 0, on |-> {}, result |-> "none"]

\* UniformBias(network, p, trand=t) over the network at hand.
UniformBias(p, t) ==
    /\ bias.cls = "none"
    /\ bias' = NewBias("UniformBias", p, t)
    /\ biasArg' = <<>>
    /\ UNCHANGED fn
    /\ UNCHANGED <<vars_rand, iterVars, satVars, wiring>>

\* MeanBias constructed over any network, the test of the network's kind
\* left to the draws.
MeanBiasDeferred(t) ==
    /\ bias.cls = "none" /\ biasArg # <<>>
    /\ bias' = NewBias("MeanBias",
                       IF biasArg.type = "LogicNetwork" THEN MeanBiasOf(biasArg)
                       ELSE Fraction(1, 2), t)
    /\ biasArg' = <<>>
    /\ UNCHANGED fn
    /\ UNCHANGED <<vars_rand, iterVars, satVars, wiring>>

\* MeanBias(network, trand=t) over the network at hand: not implemented for
\* a network that is no logic network; otherwise UniformBias.__init__ with
\* p = _mean_bias(network).
MeanBias(t) ==
    /\ bias.cls = "none" /\ biasArg # <<>>
    /\ bias' = IF biasArg.type # "LogicNetwork"
               THEN [cls |-> "NotImplementedError"]
               ELSE NewBias("MeanBias", MeanBiasOf(biasArg), t)
    /\ biasArg' = <<>>
    /\ UNCHANGED fn
    /\ UNCHANGED <<vars_rand, iterVars, satVars, wiring>>

\* One pass of the loop of _randomize inside random(), for a node of
\* in-degree k of the topology trand.random() returned:
\* _function_class_parameters gives k and self.p, _random_function draws
\* the number of on-patterns, then that many distinct indices, and returns
\* them formatted.
RandomFunction(k) ==
    /\ IsBias(bias)
    /\ bias.trand \in TrandInstances
    /\ \E n \in NumStates(k, bias.p) :
          \E I \in Indices(Pow2(k), n) :
             fn' = [k |-> k, weights |-> Weights(k, bias.p), num_states |-> n,
                    on |-> {Format(index, k) : index \in I}, result |-> "returned"]
    /\ UNCHANGED <<bias, biasArg>>
    /\ UNCHANGED <<vars_rand, iterVars, satVars, wiring>>

\* random() on a bias randomizer that holds a class in trand: the first
\* statement, self.trand.random(), raises TypeError and no function is drawn.
RandomRaises ==
    /\ IsBias(bias)
    /\ bias.trand \in TrandClasses
    /\ fn.result = "none"
    /\ fn' = [fn EXCEPT !.result = "TypeError"]
    /\ UNCHANGED <<bias, biasArg>>
    /\ UNCHANGED <<vars_rand, iterVars, satVars, wiring>>

NextBias ==
    \/ \E p \in Probabilities : \E t \in BiasTrands : UniformBias(p, t)
    \/ \E t \in BiasTrands : MeanBias(t)
    \/ \E k \in 0..MaxArity : RandomFunction(k)
    \/ RandomRaises

SpecBias == InitBias /\ [][NextBias]_vars

\* ------------------------------------------------------------ bias claims
\* p * 2^k for the function drawn last, in units of 1 / p.den.
Scaled == bias.p.num * Pow2(fn.k)

\* floor(p * 2^k), as the largest whole number not above it.
FloorCount ==
    CHOOSE n \in 0..Pow2(fn.k) :
        /\ n * bias.p.den <= Scaled
        /\ \A m \in 0..Pow2(fn.k) : m * bias.p.den <= Scaled => m <= n

\* ceil(p * 2^k), as the smallest whole number not below it.
CeilCount ==
    CHOOSE n \in 0..Pow2(fn.k) :
        /\ n * bias.p.den >= Scaled
        /\ \A m \in 0..Pow2(fn.k) : m * bias.p.den >= Scaled => m >= n

Drawn == IsBias(bias) /\ fn.result = "returned"

\* C16: for every in-degree k and every target bias p between 0 and 1, the
\* function generator returns floor(p * 2^k) or ceil(p * 2^k) distinct
\* patterns, a number between 0 and 2^k, so that the realized bias
\* (patterns / 2^k) is less than 1 / 2^k away from p.
CountFloorOrCeil ==
    Drawn =>
        /\ fn.num_states \in {FloorCount, CeilCount}
        /\ fn.num_states \in 0..Pow2(fn.k)
        /\ Cardinality(fn.on) = fn.num_states
        /\ fn.num_states * bias.p.den - Scaled < bias.p.den
        /\ Scaled - fn.num_states * bias.p.den < bias.p.den

\* With p = 1/3 and in-degree 2, p * 2^k = 4/3 and two patterns were drawn.
CountFloorOrCeilWitness ==
    /\ Drawn /\ fn.k = 2 /\ bias.p = [num |-> 1, den |-> 3]
    /\ fn.num_states = 2 /\ Cardinality(fn.on) = 2

IntegerCountDeterministic ==
    (Drawn /\ bias.cls = "UniformBias" /\ fn.k >= 1 /\ Scaled % bias.p.den = 0)
        => /\ fn.num_states * bias.p.den = Scaled
           /\ Cardinality(fn.on) * bias.p.den = Scaled

\* The default p = 1/2 and in-degree 2: two patterns.
IntegerCountDeterministicWitness ==
    /\ Drawn /\ bias.cls = "UniformBias" /\ bias.p = [num |-> 1, den |-> 2]
    /\ fn.k = 2 /\ fn.num_states = 2 /\ Cardinality(fn.on) = 2

\* C19: every function drawn for a node of in-degree 0 has an empty on-set
\* (bias 0.0), whatever p is.
ExternalNodeUnbiased ==
    (Drawn /\ fn.k = 0) => fn.on = {}

\* p is the mean of the biases n / 2^k of the rows of table: the sum of the
\* biases, brought to the common denominator 2^(sum of the k), is the
\* number of rows times p.
RECURSIVE SumK(_)
SumK(table) == IF table = <<>> THEN 0 ELSE table[1].k + SumK(Tail(table))

RECURSIVE SumOver(_, _)
SumOver(table, K) ==
    IF table = <<>> THEN 0
    ELSE table[1].n * Pow2(K - table[1].k) + SumOver(Tail(table), K)

IsMean(p, table) ==
    SumOver(table, SumK(table)) * p.den = p.num * Len(table) * Pow2(SumK(table))

\* C20: MeanBias constructed over a logic network has as p the arithmetic
\* mean over the rows of the network's table of (size of the on-set) /
\* 2^(number of predecessors); every later draw leaves p as it is and draws
\* each function as UniformBias does with that p.
MeanBiasIsMean ==
    [][/\ (bias.cls = "none" /\ bias'.cls = "MeanBias")
            => /\ biasArg.type = "LogicNetwork"
               /\ IsMean(bias'.p, biasArg.table)
       /\ (bias.cls = "MeanBias")
            => /\ bias' = bias
               /\ (fn' # fn /\ fn'.result = "returned")
                    => /\ fn'.weights = Weights(fn'.k, bias.p)
                       /\ fn'.num_states \in NumStates(fn'.k, bias.p)
                       /\ Cardinality(fn'.on) = fn'.num_states]_vars

\* MeanBias over a table with biases 1/2 and 1/4 has p = 3/8; a node of
\* in-degree 2 got two patterns (p * 2^k = 3/2).
MeanBiasIsMeanWitness ==
    /\ Drawn /\ bias.cls = "MeanBias" /\ bias.p.num * 8 = 3 * bias.p.den
    /\ fn.k = 2 /\ fn.num_states = 2

\* ------------------------------------------------- draws, further claims
\* C21: a retry of NetworkRandomizer.random() draws a fresh graph from
\* trand.random(), so that a random() call that came to its end made as many
\* trand.random() calls as it generated candidate networks.
FreshTopologyPerCandidate ==
    (call = "rand" /\ pc = "done" /\ result \in {"returned", "ConstraintError"}
        /\ raisedBy # "trand")
        => tcalls = gen

\* C27: a step of random(), on the NetworkRandomizer or on its trand, from
\* the call to its return or raise, leaves the reference graph, the timeouts,
\* trand, the randomizer's own constraint list and trand.constraints as they
\* were.
DrawLeavesConfiguration ==
    [][(phase = "ready" /\ op' = "none")
          => UNCHANGED <<phase, graph, timeout, trandTimeout, trand,
                         constraints, trandConstraints>>]_vars

\* random() raised a constraint-violation error after two candidates, on a
\* randomizer that holds a constraint in each list.
DrawLeavesConfigurationWitness ==
    /\ call = "rand" /\ result = "ConstraintError" /\ raisedBy = "rand"
    /\ Len(constraints) = 1 /\ Len(trandConstraints) = 1
    /\ timeout = 2 /\ gen = 2

\* The loops of random() run on once entered: the program is sequential and
\* nothing waits, so a loop step that stays possible is taken.
Looping ==
    \/ \E g \in Graphs : TrandAttempt(g)
    \/ \E t \in Tables : Attempt(t)
    \/ Raise

\* Construction with a positive timeout, followed by draws.
NextBounded ==
    \/ /\ phase = "new"
       /\ \E arg \in TrandArgs, cs \in ConstraintLists, t \in 1..MaxTimeout, tt \in TrandTimeouts :
              Construct(arg, cs, t, tt)
    \/ Random
    \/ \E g \in Graphs : TrandAttempt(g)
    \/ \E t \in Tables : Attempt(t)
    \/ Raise

SpecBounded == Init /\ [][NextBounded]_vars /\ WF_vars(Looping)

\* random() of the NetworkRandomizer is running or has ended, and both the
\* randomizer and the object in its trand have a positive timeout.
BothBounded == call = "rand" /\ timeout > 0 /\ trandTimeout > 0

PatternsHaveArityLength ==
    Drawn => /\ \A pattern \in fn.on : Len(pattern) = fn.k
             /\ Cardinality(fn.on) = fn.num_states

\* --------------------------------------------------- lists, further claims
\* The value a caller supplied that the stored element x was made from: a
\* generic adapter was made from a bare predicate.
Origin(x) ==
    IF x.cls \in {"GenericDynamical", "GenericTopological"}
    THEN [cls |-> "callable", test |-> x.test]
    ELSE x

\* C22: after any constructions, bulk assignments and appends on a
\* NetworkRandomizer, every element of its own constraints is a
\* DynamicalConstraint, every element of trand.constraints is a
\* TopologicalConstraint, and no value the caller supplied is held in both.
ListsTypedAndDisjoint ==
    /\ \A i \in 1..Len(constraints) : IsDynamical(constraints[i])
    /\ \A j \in 1..Len(trandConstraints) : IsTopological(trandConstraints[j])
    /\ \A i \in 1..Len(constraints), j \in 1..Len(trandConstraints) :
           /\ constraints[i] # trandConstraints[j]
           /\ Origin(constraints[i]) # Origin(trandConstraints[j])

ListsTypedAndDisjointWitness ==
    /\ op = "rand.add_constraint" /\ err = "ok"
    /\ Len(constraints) = 2 /\ Len(trandConstraints) = 1
    /\ constraints[2].cls = "GenericDynamical"

\* C23: add_constraint(c) ends in the same own list and the same
\* trand.constraints as bulk-assigning the previous constraints followed by
\* c, and raises TypeError exactly when that bulk assignment would.
AppendClassifiesAsBulk ==
    [][op' = "rand.add_constraint"
         => LET r == NetworkSetter(trandConstraints \o constraints \o given',
                                   trand, trandConstraints, constraints, graph)
            IN  /\ (err' = "TypeError") <=> (r.err = "TypeError")
                /\ constraints' = r.d
                /\ trandConstraints' = r.t]_vars

\* C29: bulk-assigning a caller-owned list to a TopologyRandomizer or a
\* FixedTopology leaves the caller's list with the elements it had, whether
\* the assignment succeeds or fails.
CallerListUntouched ==
    (op = "trand.constraints" /\ trand \in TopologyInstances) => caller = given

\* C28: after any constraint bulk assignments, appends and replacements of
\* the reference graph on a FixedTopology, the graph random() returns
\* satisfies every constraint in its constraint list.
FixedDrawSatisfiesStored ==
    (call = "trand" /\ pc = "done" /\ result = "returned"
        /\ trand = "FixedTopologyInstance")
        => \A i \in 1..Len(trandConstraints) :
               GraphSatisfies(trandConstraints[i], topology)

\* ----------------------------------------------------------------- wiring
\* NetworkRandomizer._randomize(topology) builds one table row per node, in
\* the iteration order of topology.nodes; each row holds the labels of the
\* node's predecessors.  neet's LogicNetwork reads row i (counted from 0) as
\* the row of node i and the labels in it as row positions.  The function
\* column of a row is drawn by RandomFunction and left out here.

\* The iteration orders of the nodes 0..n-1 of a graph.
NodeOrders(n) ==
    {o \in [1..n -> 0..(n - 1)] : \A i, j \in 1..n : o[i] = o[j] => i = j}

\* The graphs _randomize can be handed: an iteration order of the nodes and
\* a set of edges <<source, target>> over their labels.
WiringInputs ==
    UNION {[order : NodeOrders(n),
            edges : {F \in SUBSET ((0..(n - 1)) \X (0..(n - 1))) :
                         Cardinality(F) <= MaxEdges},
            table : {<<>>}] : n \in 0..MaxNodes}

\* topology.predecessors(node)
Predecessors(edges, node) == {e[1] : e \in {f \in edges : f[2] = node}}

\* table.append((predecessors, ...)) for the next node of topology.nodes
RowsAppended(w) ==
    Append(w.table, Predecessors(w.edges, w.order[Len(w.table) + 1]))

\* One pass of the loop of _randomize.
RandomizeRow ==
    /\ Len(wiring.table) < Len(wiring.order)
    /\ wiring' = [wiring EXCEPT !.table = RowsAppended(wiring)]
    /\ UNCHANGED <<vars_rand, iterVars, satVars, biasVars>>

\* The wiring of LogicNetwork(table): an edge from every entry of a row to
\* the node the row's position stands for.
NetworkEdges(table) ==
    UNION {{<<p, i - 1>> : p \in table[i]} : i \in 1..Len(table)}

InitWiring ==
    /\ NoRandomizer /\ NoMock /\ NoSubject /\ NoBias
    /\ wiring \in WiringInputs

NextWiring == RandomizeRow

SpecWiring == InitWiring /\ [][NextWiring]_vars

\* C24: the network _randomize builds is aligned to the graph it was
\* handed, for every iteration order of the graph's nodes: one row per
\* node, the row at position i holding the in-neighbours of node i, and the
\* wiring of the network having the edges of the graph.
TableAlignedToGraph ==
    Len(wiring.table) = Len(wiring.order)
        => /\ \A i \in 1..Len(wiring.table) :
                  wiring.table[i] = Predecessors(wiring.edges, i - 1)
           /\ NetworkEdges(wiring.table) = wiring.edges

\* ------------------------------------------------------------ unsupported
\* The two places that raise NotImplementedError for a network that is no
\* logic network: MeanBias.__init__ and IsIrreducible.satisfies.
\* SpecUnsupported starts either with a reference network at hand, over
\* which MeanBias is constructed and draws, or with a network at hand, for
\* which IsIrreducible is constructed and asked (with no network at hand
\* it is asked about a value that is no network).

\* The reference networks: a network that is no logic network and the
\* logic networks of one node.
UnsupportedReferences ==
    {r \in References : r.type = "LogicNetwork" => Len(r.table) = 1}

InitUnsupported ==
    /\ NoRandomizer /\ NoMock /\ NoWiring
    /\ constraint = [cls |-> "none"]
    /\ outcome = [kind |-> "none"]
    /\ scan = [idx |-> 0, rows |-> <<>>, calls |-> 0]
    /\ bias = [cls |-> "none"]
    /\ fn = [k |-> 0, weights |-> <<0, 0>>, num_states |-> 0, on |-> {}, result |-> "none"]
    /\ \/ biasArg \in UnsupportedReferences /\ subject = [type |-> "none"]
       \/ biasArg = <<>> /\ subject \in Networks

NextUnsupported ==
    \/ \E t \in BiasTrands : MeanBias(t)
    \/ \E k \in 0..MaxArity : RandomFunction(k)
    \/ RandomRaises
    \/ MakeIsIrreducible
    \/ Satisfies
    \/ \E row \in Rows : ScanNode(row)

SpecUnsupported == InitUnsupported /\ [][NextUnsupported]_vars

\* C26 as stated: constructing a strategy over a network representation it
\* does not support succeeds; NotImplementedError is not raised at
\* construction.
ConstructionNeverUnsupported == bias.cls # "NotImplementedError"

\* C26, amended: IsIrreducible is constructed whatever the network and
\* raises NotImplementedError when satisfies runs on a network that is no
\* logic network; MeanBias over a reference that is no logic network raises
\* NotImplementedError at construction, before any function is drawn.
UnsupportedRaisedWhereCoded ==
    [][/\ (bias.cls = "none" /\ bias'.cls # "none" /\ biasArg.type # "LogicNetwork")
            => (bias'.cls = "NotImplementedError" /\ fn' = fn)
       /\ (bias.cls = "NotImplementedError") => (fn' = fn /\ bias' = bias)
       /\ (constraint.cls = "none" /\ constraint'.cls = "IsIrreducible")
            => outcome'.kind = "none"
       /\ (constraint.cls = "IsIrreducible" /\ outcome.kind = "none"
              /\ outcome'.kind # "none" /\ subject.type = "WTNetwork")
            => outcome' = Error("NotImplementedError", TRUE)]_vars

UnsupportedRaisedWhereCodedWitness ==
    /\ bias.cls = "NotImplementedError" /\ biasArg = <<>>
    /\ fn.result = "none" /\ constraint.cls = "none"

====
